---- MODULE Spec2Model ----
(***************************************************************************)
(* State-machine model of whatsapp-sender.js (lines 1-328): the one-shot   *)
(* sender that resolves a target, sends one message through the            *)
(* whatsapp-web.js client, races the delivery ack against a timer and      *)
(* turns the result into the process exit code.                            *)
(*                                                                         *)
(* One action is one run-to-completion task of the Node event loop: an     *)
(* event handler up to its first await, or the continuation of an await    *)
(* once the awaited promise has settled (microtasks run before the next    *)
(* event, so a resolve and the continuation it releases are one step).     *)
(* The client is a black box: it emits ready, auth_failure, disconnected   *)
(* and message_ack whenever it likes, and its promises (getChats,          *)
(* sendMessage, destroy) settle with any outcome.  Texts are sequences of  *)
(* segments; String.includes is contiguous-subsequence search.             *)
(***************************************************************************)
EXTENDS Integers, Sequences, FiniteSets, TLC

\* ------------------------------------------------------------------ bounds
\* number of "ready" events the client may emit in one run
MaxReady == 2

Pipes == 1..MaxReady

\* ------------------------------------------------------------------- texts
Includes(s, p) ==
  \E k \in 0..(Len(s) - Len(p)) : SubSeq(s, k + 1, k + Len(p)) = p

\* the three substrings tested at lines 143-146, 197-200 and 268-271
BenignPatterns ==
  { <<"markedUnread">>, <<"sendSeen">>, <<"Cannot read properties of undefined">> }

isMarkedUnreadError(errorMsg) ==
  \E p \in BenignPatterns : Includes(errorMsg, p)

\* what `sent.id._serialized` throws at line 138/157 when sent is undefined
TypeErrorUndefinedId ==
  <<"Cannot read properties of undefined", " (reading 'id')">>

ErrorTexts ==
  { TypeErrorUndefinedId,
    <<"Evaluation failed: ", "sendSeen", " is not a function">>,
    <<"Protocol error: Target closed">> }

\* err of an unhandled rejection: <<>> stands for an err with no text
Rejections ==
  { <<"Evaluation failed: ", "sendSeen", " is not a function">>,
    <<"Protocol error: Target closed">>,
    <<>> }

DisconnectReasons == { "NAVIGATION", "LOGGED_OUT", "OTHER" }

\* ------------------------------------------------------------ command line
RECURSIVE Join(_)
\* process.argv.slice(2).join(" ")
Join(args) ==
  IF args = <<>> THEN <<>>
  ELSE IF Len(args) = 1 THEN args[1]
  ELSE args[1] \o <<" ">> \o Join(Tail(args))

Argvs == { <<>>, << <<>> >>, << <<"o">>, <<"k">> >> }

\* ------------------------------------------------------- target resolution
Digits == { "0", "1", "2", "3", "4", "5", "6", "7", "8", "9" }

toLowerCase(s) ==
  [ k \in 1..Len(s) |->
      CASE s[k] = "F" -> "f"
        [] s[k] = "A" -> "a"
        [] s[k] = "M" -> "m"
        [] OTHER -> s[k] ]

\* target.replace(/\D/g, "")
StripNonDigits(s) == SelectSeq(s, LAMBDA c : c \in Digits)

GroupSuffix == <<"@", "g", ".", "u", "s">>
ContactSuffix == <<"@", "c", ".", "u", "s">>

\* faulty variant: chat.isGroup is not tested
GroupMatches_AnyChat(chat, target) ==
  \/ toLowerCase(chat.name) = toLowerCase(target)
  \/ chat.id = target
  \/ chat.id = target \o GroupSuffix
\* the predicate of chats.find at lines 96-100
GroupMatches(chat, target) ==
  /\ chat.isGroup
  /\ \/ toLowerCase(chat.name) = toLowerCase(target)
     \/ chat.id = target
     \/ chat.id = target \o GroupSuffix

\* Array.prototype.find: index of the first match, 0 when there is none
FindGroup(chats, target) ==
  IF \E k \in 1..Len(chats) : GroupMatches(chats[k], target)
  THEN CHOOSE k \in 1..Len(chats) :
         /\ GroupMatches(chats[k], target)
         /\ \A j \in 1..(k - 1) : ~GroupMatches(chats[j], target)
  ELSE 0

\* faulty variant: the filter keeps every chat
AvailableGroups_AllChats(chats) == SelectSeq(chats, LAMBDA c : TRUE)
\* chats.filter((chat) => chat.isGroup), line 106
AvailableGroups(chats) == SelectSeq(chats, LAMBDA c : c.isGroup)

\* groups.forEach(...console.log), lines 107-109: one line per group, with
\* its name and its id
GroupLines(groups) ==
  [ k \in 1..Len(groups) |-> [ name |-> groups[k].name, id |-> groups[k].id ] ]

\* faulty variant: the non-digit characters are kept
ResolveContact_KeepsAll(target) ==
  IF \E k \in 1..Len(target) : target[k] = "@"
  THEN target
  ELSE target \o ContactSuffix
\* lines 119-125
ResolveContact(target) ==
  IF \E k \in 1..Len(target) : target[k] = "@"
  THEN target
  ELSE StripNonDigits(target) \o ContactSuffix

ChatFam == [ isGroup |-> TRUE, name |-> <<"f", "a", "m">>,
             id |-> <<"7">> \o GroupSuffix ]
ChatOps == [ isGroup |-> TRUE, name |-> <<"7">>,
             id |-> <<"8">> \o GroupSuffix ]
ChatBob == [ isGroup |-> FALSE, name |-> <<"F", "a", "m">>,
             id |-> <<"5">> \o ContactSuffix ]

Snapshots == { <<ChatBob, ChatOps, ChatFam>>, <<ChatBob, ChatOps>> }

Configs ==
  { [ enabled |-> FALSE, type |-> "contact", target |-> <<"5">> ],
    [ enabled |-> TRUE, type |-> "contact",
      target |-> <<"+", "1", " ", "(", "5", ")">> ],
    [ enabled |-> TRUE, type |-> "group", target |-> <<"F", "a", "m">> ] }

\* ------------------------------------------------------------------- state
VARIABLES
  configReadable,  \* fs.readFileSync/JSON.parse of config.json succeeds
  argv,            \* process.argv.slice(2)
  config,          \* config.whatsapp
  clientChats,     \* what client.getChats() resolves with
  phase,           \* "start" | "running" | "exited"
  exitCode,        \* argument of the process.exit call taken, -1 before
  exitLine,        \* source line of the process.exit call taken, 0 before
  messageWasSent,  \* line 59
  messageAcked,    \* line 60
  readyCount,      \* ready events emitted so far
  pc,              \* per ready-handler run: the await it is suspended at
  chatId,          \* per run: local chatId
  diagnostic,      \* per run: the "Available groups" lines logged
  sent,            \* per run: local sent (message id, 0 = undefined)
  caught,          \* per run: error bound by the outer catch, line 194
  retried,         \* per run: the benign branch at line 148 was taken
  ackPromise,      \* per run: promise of waitForAck
  ackTimer,        \* per run: timer of waitForAck
  ackListener,     \* per run: handler subscribed to "message_ack"
  ackReceived,     \* per run: local ackReceived, line 176
  sendLog,         \* per run: the client.sendMessage calls made, in order
  destroyCalls,    \* number of client.destroy calls made
  destroyRejected, \* some client.destroy promise rejected
  rejMsg,          \* msg computed by the unhandledRejection handler
  failedUnsent     \* history: a failure was observed while messageWasSent
                   \* was false

vars == << configReadable, argv, config, clientChats, phase, exitCode,
           exitLine, messageWasSent, messageAcked, readyCount, pc, chatId,
           diagnostic, sent, caught, retried, ackPromise, ackTimer, ackListener,
           ackReceived, sendLog, destroyCalls, destroyRejected, rejMsg,
           failedUnsent >>

envVars == << configReadable, argv, config, clientChats >>
outcomeVars == << messageWasSent, messageAcked >>
ackVars == << ackPromise, ackTimer, ackListener, ackReceived >>
exitVars == << phase, exitCode, exitLine >>

message == Join(argv)

\* the state of the process when the script starts
ProcessStart ==
  /\ phase = "start"
  /\ exitCode = -1
  /\ exitLine = 0
  /\ messageWasSent = FALSE
  /\ messageAcked = FALSE
  /\ readyCount = 0
  /\ pc = [ i \in Pipes |-> "idle" ]
  /\ chatId = [ i \in Pipes |-> <<>> ]
  /\ diagnostic = [ i \in Pipes |-> <<>> ]
  /\ sent = [ i \in Pipes |-> 0 ]
  /\ caught = [ i \in Pipes |-> <<>> ]
  /\ retried = [ i \in Pipes |-> FALSE ]
  /\ ackPromise = [ i \in Pipes |-> "none" ]
  /\ ackTimer = [ i \in Pipes |-> "none" ]
  /\ ackListener = [ i \in Pipes |-> FALSE ]
  /\ ackReceived = [ i \in Pipes |-> FALSE ]
  /\ sendLog = [ i \in Pipes |-> <<>> ]
  /\ destroyCalls = 0
  /\ destroyRejected = FALSE
  /\ rejMsg = <<>>
  /\ failedUnsent = FALSE

Init ==
  /\ configReadable \in BOOLEAN
  /\ argv \in Argvs
  /\ config \in Configs
  /\ clientChats \in Snapshots
  /\ config.type = "contact" => clientChats = <<ChatBob, ChatOps>>
  /\ ProcessStart

\* a failure is being observed in this step
FailureObserved == failedUnsent' = (failedUnsent \/ ~messageWasSent)
NoFailureObserved == UNCHANGED failedUnsent

\* process.exit(code) at the given source line
Exit(code, line) ==
  /\ phase' = "exited"
  /\ exitCode' = code
  /\ exitLine' = line

\* ------------------------------------------------------------ exit codes
\* faulty variants of the disconnected handler
DisconnectedExitCode_AlwaysFail(wasSent) == IF wasSent THEN 1 ELSE 1
DisconnectedExitCode_AlwaysOk(wasSent) == IF wasSent THEN 0 ELSE 0

\* line 255: process.exit(messageWasSent ? 0 : 1)
DisconnectedExitCode(wasSent) == IF wasSent THEN 0 ELSE 1

\* faulty variant: the auth_failure handler consults messageWasSent
AuthFailureExitCode_ConsultsSent(wasSent, acked) == IF wasSent THEN 0 ELSE 1

\* line 233: process.exit(1), whatever the Outcome flags are
AuthFailureExitCode(wasSent, acked) == 1

\* lines 273-282
UnhandledExitLine(msg, wasSent, acked) ==
  IF isMarkedUnreadError(msg) /\ (wasSent \/ acked) THEN 277 ELSE 282

\* faulty variant: a benign text alone is enough for exit code 0
UnhandledExitCode_BenignAlwaysOk(msg, wasSent, acked) ==
  IF isMarkedUnreadError(msg) THEN 0
  ELSE IF wasSent \/ acked THEN 0 ELSE 1

\* faulty variant: a non-benign rejection always fails
UnhandledExitCode_Strict(msg, wasSent, acked) ==
  IF isMarkedUnreadError(msg) /\ (wasSent \/ acked) THEN 0 ELSE 1

UnhandledExitCode(msg, wasSent, acked) ==
  IF isMarkedUnreadError(msg) /\ (wasSent \/ acked) THEN 0
  ELSE IF wasSent \/ acked THEN 0 ELSE 1

\* lines 264-265
RejectionText(err) == IF err = <<>> THEN <<"Unknown rejection">> ELSE err

\* faulty variant: the catch block does not look at messageWasSent
CatchBranch_IgnoresSent(error, wasSent) ==
  IF isMarkedUnreadError(error) THEN "destroy211" ELSE "destroy217"

\* lines 203-217: the branch of the outer catch, named by the await of
\* client.destroy() it suspends at
CatchBranch(error, wasSent) ==
  IF wasSent /\ isMarkedUnreadError(error) THEN "destroy211" ELSE "destroy217"

\* faulty variant: nothing follows the await of line 190
DestroyPcs_NoSuccess == { "destroy111", "destroy211", "destroy217" }
\* the awaits of client.destroy(), by the line of the exit that follows
DestroyPcs == { "destroy111", "destroy193", "destroy211", "destroy217" }

\* the process.exit that follows each awaited client.destroy()
ExitLineAfterDestroy(p) ==
  CASE p = "destroy111" -> 111
    [] p = "destroy193" -> 193
    [] p = "destroy211" -> 211
    [] p = "destroy217" -> 217

\* faulty variant: the benign branch of the catch block exits 1
ExitCodeAfterDestroy_BenignFails(p) ==
  CASE p = "destroy111" -> 1
    [] p = "destroy193" -> 0
    [] p = "destroy211" -> 1
    [] p = "destroy217" -> 1

ExitCodeAfterDestroy(p) ==
  CASE p = "destroy111" -> 1
    [] p = "destroy193" -> 0
    [] p = "destroy211" -> 0
    [] p = "destroy217" -> 1

\* ------------------------------------------------------------- ack race
\* faulty variant: a later resolve call overwrites the settled value
Resolve_Overwrites(p, v) == v

\* a promise settles once: later resolve calls are ignored
Resolve(p, v) == IF p = "pending" THEN v ELSE p

\* line 68
AckedValue(ack) == ack >= 1

\* faulty variant: the id of the event is not compared
HandlerMatches_AnyId(i, id) == ackListener[i]
\* line 67, for the handler installed by run i
HandlerMatches(i, id) == ackListener[i] /\ sent[i] = id

\* clearTimeout(timer), line 69
ClearTimeout(t) == IF t = "armed" THEN "cleared" ELSE t

\* client.removeListener("message_ack", handler), line 70
ListenerAfterMatch(l) == FALSE

\* the timer callback at line 64 only resolves: the handler stays subscribed
ListenerAfterTimeout(l) == l

\* ids of message_ack events: the messages of the sendMessage calls made so
\* far, and ForeignId for any message this process did not send
ForeignId == 2 * MaxReady + 1
IssuedIds ==
  UNION { { 2 * (i - 1) + k : k \in 1..Len(sendLog[i]) } : i \in Pipes }
AckIds == IssuedIds \cup { ForeignId }
AckLevels == { 0, 1, 2 }

\* ---------------------------------------------------------------- sending
\* faulty variant: the flag is left as it was
MarkSent_Forgotten(wasSent) == wasSent
\* messageWasSent = true, lines 136 and 155
MarkSent(wasSent) == TRUE

\* faulty variant: the call is made with the chat id still undefined
SendCall_Unresolved(i, cid) ==
  [ sendLog EXCEPT ![i] =
      Append(@, [ chatId |-> <<>>, text |-> message, sendSeen |-> FALSE ]) ]
\* client.sendMessage(chatId, message, { sendSeen: false }), lines 134, 154
SendCall(i, cid) ==
  [ sendLog EXCEPT ![i] =
      Append(@, [ chatId |-> cid, text |-> message, sendSeen |-> FALSE ]) ]

\* the id of the message run i's pending sendMessage call produces: every
\* call gets an id of its own
LastCall(i) == 2 * (i - 1) + Len(sendLog[i])

\* ----------------------------------------------------------------- startup
\* faulty variant: the enabled check comes before the message check
StartupExitLine_EnabledFirst(readable, msg, enabled) ==
  IF ~readable THEN 13
  ELSE IF ~enabled THEN 27
  ELSE IF msg = <<>> THEN 21
  ELSE 0
\* faulty variant: the enabled flag is not consulted
StartupExitLine_IgnoresEnabled(readable, msg, enabled) ==
  IF ~readable THEN 13
  ELSE IF msg = <<>> THEN 21
  ELSE 0
\* the process.exit call reached before the client is constructed at line
\* 31, 0 when none is: config unreadable (line 13), empty message (line
\* 21), whatsapp disabled (line 27), in this order
StartupExitLine(readable, msg, enabled) ==
  IF ~readable THEN 13
  ELSE IF msg = <<>> THEN 21
  ELSE IF ~enabled THEN 27
  ELSE 0

\* the argument of process.exit at lines 13, 21 and 27
StartupExitCode(line) == IF line = 27 THEN 0 ELSE 1

\* ----------------------------------------------------------------- actions
\* lines 6-39 and the registrations up to line 328, run synchronously
Startup ==
  /\ phase = "start"
  /\ LET line == StartupExitLine(configReadable, message, config.enabled) IN
       IF line = 0
       THEN /\ phase' = "running"
            /\ NoFailureObserved
            /\ UNCHANGED << exitCode, exitLine >>
       ELSE /\ Exit(StartupExitCode(line), line)
            /\ IF StartupExitCode(line) = 1 THEN FailureObserved
               ELSE NoFailureObserved
  /\ UNCHANGED << envVars, outcomeVars, readyCount, pc, chatId, diagnostic,
                  sent, caught, retried, ackVars, sendLog, destroyCalls,
                  destroyRejected, rejMsg >>

\* client.initialize() rejects (lines 314-323); the promise settles before
\* the client reports ready
InitializeRejected ==
  /\ phase = "running"
  /\ readyCount = 0
  /\ Exit(1, 322)
  /\ FailureObserved
  /\ UNCHANGED << envVars, outcomeVars, readyCount, pc, chatId, diagnostic,
                  sent, caught, retried, ackVars, sendLog, destroyCalls,
                  destroyRejected, rejMsg >>

\* "ready" event: lines 80-94 (group) or 80-134 (contact)
Ready ==
  /\ phase = "running"
  /\ readyCount < MaxReady
  /\ readyCount' = readyCount + 1
  /\ LET i == readyCount + 1 IN
       IF config.type = "group"
       THEN /\ pc' = [ pc EXCEPT ![i] = "getChats" ]
            /\ UNCHANGED << chatId, sendLog >>
       ELSE /\ chatId' = [ chatId EXCEPT ![i] = ResolveContact(config.target) ]
            /\ sendLog' = SendCall(i, ResolveContact(config.target))
            /\ pc' = [ pc EXCEPT ![i] = "send1" ]
  /\ NoFailureObserved
  /\ UNCHANGED << envVars, exitVars, outcomeVars, diagnostic, sent, caught,
                  retried, ackVars, destroyCalls, destroyRejected, rejMsg >>

\* client.getChats() resolved: lines 95-134
GetChatsResolved(i) ==
  /\ phase = "running"
  /\ pc[i] = "getChats"
  /\ LET g == FindGroup(clientChats, config.target) IN
       IF g = 0
       THEN /\ diagnostic' =
                 [ diagnostic EXCEPT
                     ![i] = GroupLines(AvailableGroups(clientChats)) ]
            /\ destroyCalls' = destroyCalls + 1
            /\ pc' = [ pc EXCEPT ![i] = "destroy111" ]
            /\ FailureObserved
            /\ UNCHANGED << chatId, sendLog >>
       ELSE /\ chatId' = [ chatId EXCEPT ![i] = clientChats[g].id ]
            /\ sendLog' = SendCall(i, clientChats[g].id)
            /\ pc' = [ pc EXCEPT ![i] = "send1" ]
            /\ NoFailureObserved
            /\ UNCHANGED << diagnostic, destroyCalls >>
  /\ UNCHANGED << envVars, exitVars, outcomeVars, readyCount, sent, caught,
                  retried, ackVars, destroyRejected, rejMsg >>

\* client.getChats() rejected: outer catch, lines 194-216
GetChatsRejected(i, e) ==
  /\ phase = "running"
  /\ pc[i] = "getChats"
  /\ caught' = [ caught EXCEPT ![i] = e ]
  /\ destroyCalls' = destroyCalls + 1
  /\ pc' = [ pc EXCEPT ![i] = CatchBranch(e, messageWasSent) ]
  /\ FailureObserved
  /\ UNCHANGED << envVars, exitVars, outcomeVars, readyCount, chatId,
                  diagnostic, sent, retried, ackVars, sendLog,
                  destroyRejected, rejMsg >>

\* an error thrown inside the inner try (lines 140-170) or, on the retry,
\* rethrown at line 164, with messageWasSent as it stands at the throw
SendFailed(i, e, wasSent) ==
  IF pc[i] = "send1" /\ isMarkedUnreadError(e)
  THEN /\ retried' = [ retried EXCEPT ![i] = TRUE ]
       /\ sendLog' = SendCall(i, chatId[i])
       /\ pc' = [ pc EXCEPT ![i] = "send2" ]
       /\ UNCHANGED << caught, destroyCalls >>
  ELSE /\ caught' = [ caught EXCEPT ![i] = e ]
       /\ destroyCalls' = destroyCalls + 1
       /\ pc' = [ pc EXCEPT ![i] = CatchBranch(e, wasSent) ]
       /\ UNCHANGED << retried, sendLog >>

\* sendMessage resolved with a Message: lines 134-139 or 154-158, then
\* lines 173-176 and the body of waitForAck
SendReturnedMessage(i) ==
  /\ phase = "running"
  /\ pc[i] \in { "send1", "send2" }
  /\ messageWasSent' = MarkSent(messageWasSent)
  /\ sent' = [ sent EXCEPT ![i] = LastCall(i) ]
  /\ ackPromise' = [ ackPromise EXCEPT ![i] = "pending" ]
  /\ ackTimer' = [ ackTimer EXCEPT ![i] = "armed" ]
  /\ ackListener' = [ ackListener EXCEPT ![i] = TRUE ]
  /\ pc' = [ pc EXCEPT ![i] = "ackwait" ]
  /\ NoFailureObserved
  /\ UNCHANGED << envVars, exitVars, messageAcked, readyCount, chatId,
                  diagnostic, caught, retried, ackReceived, sendLog,
                  destroyCalls, destroyRejected, rejMsg >>

\* sendMessage resolved with undefined: line 136 (155) runs, then the log
\* statement at line 138 (157) throws a TypeError inside the try
SendReturnedUndefined(i) ==
  /\ phase = "running"
  /\ pc[i] \in { "send1", "send2" }
  /\ messageWasSent' = MarkSent(messageWasSent)
  /\ sent' = [ sent EXCEPT ![i] = 0 ]
  /\ SendFailed(i, TypeErrorUndefinedId, TRUE)
  /\ NoFailureObserved
  /\ UNCHANGED << envVars, exitVars, messageAcked, readyCount, chatId,
                  diagnostic, ackVars, destroyRejected, rejMsg >>

\* sendMessage rejected with error text e
SendRejected(i, e) ==
  /\ phase = "running"
  /\ pc[i] \in { "send1", "send2" }
  /\ SendFailed(i, e, messageWasSent)
  /\ FailureObserved
  /\ UNCHANGED << envVars, exitVars, outcomeVars, readyCount, chatId,
                  diagnostic, sent, ackVars, destroyRejected, rejMsg >>

\* "message_ack" event (msg.id._serialized = id, ack = level): every
\* subscribed handler runs (lines 66-73); a run whose promise settles here
\* continues up to the settle delay of line 189
MessageAck(id, level) ==
  /\ phase = "running"
  /\ LET M == { i \in Pipes : HandlerMatches(i, id) } IN
       /\ messageAcked' = IF M # {} THEN AckedValue(level) ELSE messageAcked
       /\ ackTimer' = [ i \in Pipes |->
            IF i \in M THEN ClearTimeout(ackTimer[i]) ELSE ackTimer[i] ]
       /\ ackListener' = [ i \in Pipes |->
            IF i \in M THEN ListenerAfterMatch(ackListener[i])
            ELSE ackListener[i] ]
       /\ ackPromise' = [ i \in Pipes |->
            IF i \in M THEN Resolve(ackPromise[i], "true") ELSE ackPromise[i] ]
       /\ ackReceived' = [ i \in Pipes |->
            IF i \in M /\ ackPromise[i] = "pending" THEN TRUE
            ELSE ackReceived[i] ]
       /\ pc' = [ i \in Pipes |->
            IF i \in M /\ ackPromise[i] = "pending" THEN "settle" ELSE pc[i] ]
  /\ NoFailureObserved
  /\ UNCHANGED << envVars, exitVars, messageWasSent, readyCount, chatId,
                  diagnostic, sent, caught, retried, sendLog, destroyCalls,
                  destroyRejected, rejMsg >>

\* the 20000 ms timer of waitForAck fires (line 64); the run continues up
\* to the settle delay of line 189
AckTimeout(i) ==
  /\ phase = "running"
  /\ ackTimer[i] = "armed"
  /\ ackTimer' = [ ackTimer EXCEPT ![i] = "fired" ]
  /\ ackListener' = [ ackListener EXCEPT ![i] = ListenerAfterTimeout(@) ]
  /\ ackPromise' = [ ackPromise EXCEPT ![i] = Resolve(@, "false") ]
  /\ IF ackPromise[i] = "pending"
     THEN /\ ackReceived' = [ ackReceived EXCEPT ![i] = FALSE ]
          /\ pc' = [ pc EXCEPT ![i] = "settle" ]
     ELSE UNCHANGED << ackReceived, pc >>
  /\ NoFailureObserved
  /\ UNCHANGED << envVars, exitVars, outcomeVars, readyCount, chatId,
                  diagnostic, sent, caught, retried, sendLog, destroyCalls,
                  destroyRejected, rejMsg >>

\* the 1000 ms settle delay elapses: client.destroy() is called, line 190
SettleElapsed(i) ==
  /\ phase = "running"
  /\ pc[i] = "settle"
  /\ destroyCalls' = destroyCalls + 1
  /\ pc' = [ pc EXCEPT ![i] = "destroy193" ]
  /\ NoFailureObserved
  /\ UNCHANGED << envVars, exitVars, outcomeVars, readyCount, chatId,
                  diagnostic, sent, caught, retried, ackVars, sendLog,
                  destroyRejected, rejMsg >>

\* faulty variant: a rejection of client.destroy() is thrown into the
\* failure exit
AfterDestroy_Propagates(p, rejected) == IF rejected THEN "destroy217" ELSE p
\* await client.destroy().catch(...): whether the promise resolved or
\* rejected, the statement after the await runs next
AfterDestroy(p, rejected) == p

\* an awaited client.destroy() settled; its rejection is swallowed by the
\* .catch at lines 110, 190, 210, 216 and process.exit follows
DestroySettled(i, rejected) ==
  /\ phase = "running"
  /\ pc[i] \in DestroyPcs
  /\ destroyRejected' = (destroyRejected \/ rejected)
  /\ pc' = [ pc EXCEPT ![i] = "done" ]
  /\ Exit(ExitCodeAfterDestroy(AfterDestroy(pc[i], rejected)),
          ExitLineAfterDestroy(AfterDestroy(pc[i], rejected)))
  /\ NoFailureObserved
  /\ UNCHANGED << envVars, outcomeVars, readyCount, chatId, diagnostic, sent,
                  caught, retried, ackVars, sendLog, destroyCalls, rejMsg >>

\* "auth_failure" event, lines 222-234
AuthFailure ==
  /\ phase = "running"
  /\ Exit(AuthFailureExitCode(messageWasSent, messageAcked), 233)
  /\ FailureObserved
  /\ UNCHANGED << envVars, outcomeVars, readyCount, pc, chatId, diagnostic,
                  sent, caught, retried, ackVars, sendLog, destroyCalls,
                  destroyRejected, rejMsg >>

\* "disconnected" event, lines 237-256
Disconnected(r) ==
  /\ phase = "running"
  /\ Exit(DisconnectedExitCode(messageWasSent), 255)
  /\ FailureObserved
  /\ UNCHANGED << envVars, outcomeVars, readyCount, pc, chatId, diagnostic,
                  sent, caught, retried, ackVars, sendLog, destroyCalls,
                  destroyRejected, rejMsg >>

\* process "unhandledRejection", lines 259-283
UnhandledRejection(err) ==
  /\ phase = "running"
  /\ rejMsg' = RejectionText(err)
  /\ Exit(UnhandledExitCode(RejectionText(err), messageWasSent, messageAcked),
          UnhandledExitLine(RejectionText(err), messageWasSent, messageAcked))
  /\ FailureObserved
  /\ UNCHANGED << envVars, outcomeVars, readyCount, pc, chatId, diagnostic,
                  sent, caught, retried, ackVars, sendLog, destroyCalls,
                  destroyRejected >>

Next ==
  \/ Startup
  \/ InitializeRejected
  \/ Ready
  \/ \E i \in Pipes : GetChatsResolved(i)
  \/ \E i \in Pipes, e \in ErrorTexts : GetChatsRejected(i, e)
  \/ \E i \in Pipes : SendReturnedMessage(i)
  \/ \E i \in Pipes : SendReturnedUndefined(i)
  \/ \E i \in Pipes, e \in ErrorTexts : SendRejected(i, e)
  \/ \E id \in AckIds, level \in AckLevels : MessageAck(id, level)
  \/ \E i \in Pipes : AckTimeout(i)
  \/ \E i \in Pipes : SettleElapsed(i)
  \/ \E i \in Pipes, rejected \in BOOLEAN : DestroySettled(i, rejected)
  \/ AuthFailure
  \/ \E r \in DisconnectReasons : Disconnected(r)
  \/ \E err \in Rejections : UnhandledRejection(err)

Spec == Init /\ [][Next]_vars

\* the awaited client.getChats() of run i resolves or rejects
GetChatsSettles(i) ==
  GetChatsResolved(i) \/ \E e \in ErrorTexts : GetChatsRejected(i, e)

\* the awaited client.sendMessage() of run i resolves or rejects
SendSettles(i) ==
  \/ SendReturnedMessage(i)
  \/ SendReturnedUndefined(i)
  \/ \E e \in ErrorTexts : SendRejected(i, e)

\* the awaited client.destroy() of run i resolves or rejects
DestroySettles(i) == \E rejected \in BOOLEAN : DestroySettled(i, rejected)

\* timers fire and awaited client promises settle while the process runs
Fairness ==
  /\ \A i \in Pipes : WF_vars(GetChatsSettles(i))
  /\ \A i \in Pipes : WF_vars(SendSettles(i))
  /\ \A i \in Pipes : WF_vars(AckTimeout(i))
  /\ \A i \in Pipes : WF_vars(SettleElapsed(i))
  /\ \A i \in Pipes : WF_vars(DestroySettles(i))

FairSpec == Spec /\ Fairness

\* the ready handler left to itself: the steps of the pipeline only, with
\* no auth_failure, disconnected or unhandledRejection event and no
\* rejection of client.initialize() to end the process early
PipelineNext ==
  \/ Startup
  \/ Ready
  \/ \E i \in Pipes : GetChatsSettles(i)
  \/ \E i \in Pipes : SendSettles(i)
  \/ \E id \in AckIds, level \in AckLevels : MessageAck(id, level)
  \/ \E i \in Pipes : AckTimeout(i)
  \/ \E i \in Pipes : SettleElapsed(i)
  \/ \E i \in Pipes : DestroySettles(i)

PipelineSpec == Init /\ [][PipelineNext]_vars /\ Fairness

TypeOK ==
  /\ phase \in { "start", "running", "exited" }
  /\ exitCode \in { -1, 0, 1 }
  /\ messageWasSent \in BOOLEAN
  /\ messageAcked \in BOOLEAN
  /\ readyCount \in 0..MaxReady

\* ---------------------------------------- target resolution on wide inputs
\* the longest snapshot client.getChats() resolves with
MaxChats == 3

\* a group whose id carries no "@g.us" suffix
ChatRaw == [ isGroup |-> TRUE, name |-> <<"m", "a">>, id |-> <<"8">> ]

ChatPool == { ChatFam, ChatOps, ChatBob, ChatRaw }

ResolverSnapshots == UNION { [ 1..n -> ChatPool ] : n \in 0..MaxChats }

GroupTargets ==
  { <<"F", "a", "m">>, <<"7">>, <<"8">>, <<"7">> \o GroupSuffix, <<"a">> }

PhoneExample ==
  << "+", "1", " ", "(", "5", "5", "5", ")", " ", "1", "2", "3", "-",
     "4", "5", "6", "7" >>

ContactTargets ==
  { PhoneExample, <<"5">> \o ContactSuffix, <<"a", "@", "7">>,
    <<"m", "a">>, <<"a", "7", "-", "8">>, <<>> }

ResolverConfigs ==
  { [ enabled |-> TRUE, type |-> "group", target |-> t ] :
      t \in GroupTargets }
  \cup { [ enabled |-> TRUE, type |-> "contact", target |-> t ] :
           t \in ContactTargets }

\* the script is started with a readable config.json and a message, for
\* every target and every snapshot
ResolverInit ==
  /\ configReadable = TRUE
  /\ argv = << <<"o">>, <<"k">> >>
  /\ config \in ResolverConfigs
  /\ clientChats \in ResolverSnapshots
  /\ config.type = "contact" => clientChats = <<>>
  /\ ProcessStart

\* the steps of the program up to the resolved chat id (line 127)
ResolverNext ==
  \/ Startup
  \/ Ready
  \/ \E i \in Pipes : GetChatsResolved(i)

ResolverSpec == ResolverInit /\ [][ResolverNext]_vars

\* ================================================================ claims
Exited == phase = "exited"
Settled(i) == ackPromise[i] \in { "true", "false" }

\* C1 (as stated): if messageWasSent is true when the process exits, the
\* exit code is 0, whichever terminal handler produced the exit.
C1_SentNeverDowngraded ==
  Exited /\ messageWasSent => exitCode = 0

\* C1 (amended): if messageWasSent is true when the process exits through
\* pipeline completion (193), the benign branch of the catch block (211),
\* the disconnected handler (255) or the unhandledRejection handler (277,
\* 282), the exit code is 0; the auth_failure handler (233) and the
\* non-benign branch of the catch block (217) exit 1 even then.
C1_SentExitsZeroExceptAuthAndRealCatch ==
  /\ Exited /\ messageWasSent /\ exitLine \in { 193, 211, 255, 277, 282 }
       => exitCode = 0
  /\ Exited /\ exitLine \in { 217, 233 } => exitCode = 1

C1_Witness ==
  Exited /\ messageWasSent /\ exitLine = 255 /\ exitCode = 0

\* C2: exit code 0 is produced only when the feature is disabled or
\* messageWasSent is true.
C2_ZeroOnlyIfDisabledOrSent ==
  Exited /\ exitCode = 0 => (~config.enabled \/ messageWasSent)

C2_Witness ==
  /\ Exited /\ exitCode = 0 /\ exitLine = 277
  /\ config.enabled /\ messageWasSent

\* C3 (as stated): whenever a failure of any class was observed while
\* messageWasSent was false, the final exit code is 1 (the disabled
\* short-circuit apart).
C3_UnsentFailureFinalExitOne ==
  Exited /\ failedUnsent /\ exitLine # 27 => exitCode = 1

\* C3 (amended): a step that observes a failure while messageWasSent is
\* false and ends the run does so on the exit-1 path: a terminal handler
\* exits with code 1 at once, and the pipeline goes to teardown on the
\* group-not-found or the non-benign catch branch, which exits 1.  A benign
\* first-attempt send failure is not terminal: the send is retried once and
\* what follows decides the exit code.
C3_UnsentFailureTakesExitOnePath ==
  [][ ~messageWasSent' =>
        /\ (phase = "running" /\ phase' = "exited" => exitCode' = 1)
        /\ \A i \in Pipes :
             (pc[i] \notin DestroyPcs /\ pc'[i] \in DestroyPcs)
               => /\ pc'[i] \in { "destroy111", "destroy217" }
                  /\ ExitCodeAfterDestroy(pc'[i]) = 1 ]_vars

C3_Witness ==
  /\ Exited /\ exitLine = 217 /\ exitCode = 1 /\ ~messageWasSent
  /\ \E i \in Pipes : retried[i] /\ isMarkedUnreadError(caught[i])

\* C4 (as stated): an unhandled rejection exits 0 if and only if its text
\* is benign and (messageWasSent or messageAcked); otherwise it exits 1.
C4_UnhandledZeroIffBenignAndSent ==
  Exited /\ exitLine \in { 277, 282 }
    => (exitCode = 0 <=>
          (isMarkedUnreadError(rejMsg) /\ (messageWasSent \/ messageAcked)))

\* C4 (amended): an unhandled rejection exits 0 if and only if
\* messageWasSent or messageAcked is true, whatever its text: a benign text
\* takes the exit at line 277, any other text the exit at line 282, and
\* both exit 0 once a flag is set; the exit code is 1 only when both flags
\* are false.
C4_UnhandledZeroIffSentOrAcked ==
  Exited /\ exitLine \in { 277, 282 }
    => /\ exitCode = 0 <=> (messageWasSent \/ messageAcked)
       /\ exitLine = 277 <=>
            (isMarkedUnreadError(rejMsg) /\ (messageWasSent \/ messageAcked))

C4_Witness ==
  /\ Exited /\ exitLine = 282 /\ exitCode = 0
  /\ ~isMarkedUnreadError(rejMsg) /\ messageWasSent

\* a benign failure was observed with messageWasSent true: by the catch
\* block (the run is at or past the teardown of line 210) or by the
\* unhandledRejection handler
BenignAfterSentObserved ==
  \/ \E i \in Pipes : pc[i] = "destroy211"
  \/ exitLine = 211
  \/ exitLine \in { 277, 282 } /\ isMarkedUnreadError(rejMsg) /\ messageWasSent

C6_DisconnectedExitBySent ==
  /\ phase = "running" => ENABLED (\E r \in DisconnectReasons : Disconnected(r))
  /\ Exited /\ exitLine = 255 => exitCode = (IF messageWasSent THEN 0 ELSE 1)

C6_Witness ==
  /\ Exited /\ exitLine = 255 /\ exitCode = 0
  /\ \E i \in Pipes : pc[i] = "ackwait"

\* C7: an auth_failure event exits at once with code 1 in every state in
\* which it fires, also when messageWasSent or messageAcked is true, and
\* the step calls neither sendMessage nor destroy and leaves Outcome alone.
C7_AuthFailureAlwaysExitsOne ==
  [][ phase = "running" /\ exitLine' = 233 =>
        /\ phase' = "exited"
        /\ exitCode' = 1
        /\ UNCHANGED << sendLog, destroyCalls, messageWasSent, messageAcked,
                        pc >> ]_vars

C7_Witness ==
  Exited /\ exitLine = 233 /\ exitCode = 1 /\ messageWasSent /\ messageAcked

\* C8: once started, the ack race ends at the latest when its timer fires
\* (while it is pending the timer is armed, and once the timer has fired
\* the race has reported), and it reports exactly one
\* result: the promise settles once, its value never changes afterwards
\* under any later ack event, and the run reads that one value.
C8_AckRaceReportsOnce ==
  /\ [](\A i \in Pipes :
          /\ ackPromise[i] = "pending" => ackTimer[i] = "armed"
          /\ ackTimer[i] = "fired" => Settled(i)
          /\ Settled(i) => ackReceived[i] = (ackPromise[i] = "true")
          /\ pc[i] = "ackwait" <=> ackPromise[i] = "pending")
  /\ [][ \A i \in Pipes : Settled(i) => ackPromise'[i] = ackPromise[i] ]_vars

C8_Witness ==
  \E i \in Pipes :
    ackPromise[i] = "false" /\ ackTimer[i] = "fired" /\ ~ackListener[i]

\* C9: the race reports "acknowledged" only on a matching ack of level >= 1,
\* so whenever it reports "acknowledged" messageAcked is true.
C9_AcknowledgedImpliesAcked ==
  [][ \A i \in Pipes :
        ackPromise[i] = "pending" /\ ackPromise'[i] = "true"
          => messageAcked' ]_vars

\* C10: once the ack race has reported, the listener it installed is no
\* longer subscribed.
C10_NoListenerAfterRace ==
  \A i \in Pipes : Settled(i) => ~ackListener[i]

C12_RetryOnlyAfterBenignFailure ==
  /\ [](\A i \in Pipes :
          /\ Len(sendLog[i]) <= 2
          /\ Len(sendLog[i]) = 2 => sendLog[i][2] = sendLog[i][1]
          /\ Len(sendLog[i]) = 2 <=> retried[i]
          /\ ~retried[i] /\ pc[i] \in { "destroy211", "destroy217" }
               => Len(sendLog[i]) <= 1)
  /\ [][\A i \in Pipes :
          Len(sendLog[i]) = 1 /\ Len(sendLog'[i]) = 2
            => messageWasSent' = messageWasSent]_vars

\* the outer catch block was entered by run i from a failed send while
\* messageWasSent was false, and messageWasSent is still false
SendFailureCaughtUnsent(i) ==
  /\ pc[i] = "destroy217"
  /\ sendLog[i] # <<>>
  /\ caught[i] # <<>>
  /\ ~messageWasSent

\* C13: when the first send fails with a non-benign error, or fails benign
\* and the retry fails too, the failure is caught with messageWasSent
\* false, no ack race is started and client.destroy() is called; from then
\* on messageWasSent stays false and the process exits with code 1.
C13_SendFailureStaysUnsentExitsOne ==
  /\ [](\A i \in Pipes :
          SendFailureCaughtUnsent(i)
            => ackPromise[i] = "none" /\ destroyCalls >= 1)
  /\ [][\A i \in Pipes :
          /\ ( /\ pc[i] \in { "send1", "send2" }
               /\ pc'[i] \notin { pc[i], "send2" }
               /\ ~messageWasSent' )
               => pc'[i] = "destroy217" /\ destroyCalls' = destroyCalls + 1
          /\ SendFailureCaughtUnsent(i)
               => ~messageWasSent' /\ (Exited' => exitCode' = 1)]_vars

\* C14: when the first send attempt threw an error classified benign and
\* the retried sendMessage call returned a Message, messageWasSent is true,
\* the run has started the ack race, and an exit not taken by the
\* auth_failure handler has code 0.
C14_BenignRetrySuccessExitsZero ==
  \A i \in Pipes :
    retried[i] /\ sent[i] # 0
      => /\ messageWasSent
         /\ ackPromise[i] # "none"
         /\ Exited /\ exitLine # 233 => exitCode = 0

\* no client was constructed: no ready event, no getChats or sendMessage
\* call, no destroy call
NoClientInteraction ==
  /\ readyCount = 0
  /\ \A i \in Pipes : pc[i] = "idle" /\ sendLog[i] = <<>>
  /\ destroyCalls = 0

\* C15 (as stated): with enabled = false the process exits with code 0
\* without constructing the client, for every command line, the empty
\* message included.
C15_DisabledAlwaysExitsZero ==
  configReadable /\ ~config.enabled /\ phase # "start"
    => Exited /\ exitCode = 0 /\ NoClientInteraction

\* C15 (amended): with enabled = false the process never constructs the
\* client; it exits with code 0 (line 27) when the message is not empty,
\* and with code 1 (line 21) when the message is empty, because the
\* message check comes first.
C15_DisabledExitsZeroUnlessEmptyMessage ==
  configReadable /\ ~config.enabled /\ phase # "start"
    => /\ Exited
       /\ NoClientInteraction
       /\ message # <<>> => exitCode = 0 /\ exitLine = 27
       /\ message = <<>> => exitCode = 1 /\ exitLine = 21

\* a disabled configuration with a non-empty message has exited at line 27
C15_Witness ==
  /\ Exited
  /\ ~config.enabled
  /\ message # <<>>
  /\ exitLine = 27

\* C16: when the message built from the command line is empty the process
\* exits with code 1 before the client is constructed, whatever the
\* configuration says.
C16_EmptyMessageExitsOne ==
  message = <<>> /\ phase # "start"
    => /\ Exited
       /\ exitCode = 1
       /\ exitLine \in { 13, 21 }
       /\ NoClientInteraction

\* an empty message with a readable configuration has exited at line 21
C16_Witness ==
  /\ Exited
  /\ configReadable
  /\ message = <<>>
  /\ exitLine = 21

\* the three documented criteria, each on its own
MatchesByName(chat, target) ==
  chat.isGroup /\ toLowerCase(chat.name) = toLowerCase(target)
MatchesById(chat, target) ==
  chat.isGroup /\ chat.id = target
MatchesBySuffixedId(chat, target) ==
  chat.isGroup /\ chat.id = target \o GroupSuffix

\* run i is past the resolution of a group target
GroupResolved(i) ==
  config.type = "group" /\ pc[i] \notin { "idle", "getChats" }

\* the chat run i resolved to satisfies criterion P
ResultSatisfies(i, P(_, _)) ==
  \E k \in 1..Len(clientChats) :
    P(clientChats[k], config.target) /\ clientChats[k].id = chatId[i]

SomeChatSatisfies(P(_, _)) ==
  \E k \in 1..Len(clientChats) : P(clientChats[k], config.target)

\* C17 (as stated): the result follows the priority order over the whole
\* snapshot: a group matching by name if there is one, otherwise a group
\* matching by id, otherwise a group matching by id with "@g.us" appended;
\* a non-group chat is never the result.
C17_ResolutionFollowsPriority ==
  \A i \in Pipes :
    GroupResolved(i) =>
      IF SomeChatSatisfies(MatchesByName)
      THEN ResultSatisfies(i, MatchesByName)
      ELSE IF SomeChatSatisfies(MatchesById)
      THEN ResultSatisfies(i, MatchesById)
      ELSE IF SomeChatSatisfies(MatchesBySuffixedId)
      THEN ResultSatisfies(i, MatchesBySuffixedId)
      ELSE pc[i] = "destroy111" /\ chatId[i] = <<>>

\* positions of the snapshot holding a group that satisfies one of the
\* three criteria
MatchingPositions ==
  { k \in 1..Len(clientChats) :
      \/ MatchesByName(clientChats[k], config.target)
      \/ MatchesById(clientChats[k], config.target)
      \/ MatchesBySuffixedId(clientChats[k], config.target) }

\* C17 (amended): the result is the first chat in snapshot order that is a
\* group and satisfies any of the three criteria, whichever criterion it
\* is; with no such chat the target is not found; a non-group chat is
\* never the result.
C17_ResolutionIsFirstMatchInSnapshotOrder ==
  \A i \in Pipes :
    GroupResolved(i) =>
      IF MatchingPositions = {}
      THEN pc[i] = "destroy111" /\ chatId[i] = <<>>
      ELSE /\ pc[i] = "send1"
           /\ \E k \in MatchingPositions :
                /\ \A j \in MatchingPositions : k <= j
                /\ chatId[i] = clientChats[k].id
           /\ \A k \in 1..Len(clientChats) :
                clientChats[k].id = chatId[i] => clientChats[k].isGroup

\* an earlier entry matches by id and a later one by name: the earlier one
\* is the result
C17_Witness ==
  \E i \in Pipes :
    /\ GroupResolved(i)
    /\ \E j, k \in 1..Len(clientChats) :
         /\ j < k
         /\ MatchesBySuffixedId(clientChats[j], config.target)
         /\ ~MatchesByName(clientChats[j], config.target)
         /\ MatchesByName(clientChats[k], config.target)
         /\ chatId[i] = clientChats[j].id

\* run i took the "group not found" branch (lines 103-112)
GroupNotFound(i) ==
  pc[i] = "destroy111" \/ (pc[i] = "done" /\ exitLine = 111)

RECURSIVE DigitsOf(_)
\* the digits of s, in order
DigitsOf(s) ==
  IF s = <<>> THEN <<>>
  ELSE IF Head(s) \in Digits THEN <<Head(s)>> \o DigitsOf(Tail(s))
  ELSE DigitsOf(Tail(s))

HasAt(s) == \E k \in 1..Len(s) : s[k] = "@"

\* run i is past the resolution of a contact target
ContactResolved(i) ==
  config.type = "contact" /\ pc[i] # "idle"

\* C19: a contact target is resolved without a client query and without
\* failing: the run goes from the ready event straight to the send, with
\* the target itself as chat id when it contains "@", otherwise with the
\* digits of the target followed by "@c.us"; "+1 (555) 123-4567" gives
\* "15551234567@c.us", and a target with a digit and no "@" gives a
\* non-empty run of digits before the suffix.
C19_ContactResolutionIsSyntactic ==
  \A i \in Pipes :
    ContactResolved(i) =>
      /\ pc[i] = "send1"
      /\ diagnostic[i] = <<>>
      /\ destroyCalls = 0
      /\ HasAt(config.target) => chatId[i] = config.target
      /\ ~HasAt(config.target) =>
           /\ chatId[i] = DigitsOf(config.target) \o <<"@", "c", ".", "u", "s">>
           /\ (\E k \in 1..Len(config.target) : config.target[k] \in Digits)
                => /\ Len(chatId[i]) > 5
                   /\ \A k \in 1..(Len(chatId[i]) - 5) : chatId[i][k] \in Digits
      /\ config.target = PhoneExample =>
           chatId[i] = << "1", "5", "5", "5", "1", "2", "3", "4", "5", "6",
                          "7", "@", "c", ".", "u", "s" >>
      /\ sendLog[i] # <<>> /\ sendLog[i][1].chatId = chatId[i]

\* the formatted phone number has been resolved
C19_Witness ==
  \E i \in Pipes :
    /\ ContactResolved(i)
    /\ config.target = PhoneExample
    /\ Len(chatId[i]) = 16

\* C20: messageAcked is set only by a matching ack that arrives before the
\* timer of waitForAck fires: once the promise of a run has resolved false,
\* a later message_ack event for that run's message (the step in which its
\* handler runs and unsubscribes) leaves messageAcked as it was.
C20_NoAckedChangeAfterTimeout ==
  [][\A i \in Pipes :
       ackPromise[i] = "false" /\ ackListener[i] /\ ~ackListener'[i]
         => messageAcked' = messageAcked]_vars

\* C21: a message_ack event of level 1 or more for the message of run i,
\* emitted while the process runs, after the sendMessage call was made and
\* before the timer fires, is observed: while the call is still pending
\* (the listener is not subscribed yet) the event does not pass without a
\* trace, and while the race is pending it sets messageAcked and resolves
\* the promise true.
C21_AckInWindowObserved ==
  \A i \in Pipes, level \in AckLevels \ { 0 } :
    /\ phase = "running" /\ pc[i] \in { "send1", "send2" }
         => ENABLED (MessageAck(LastCall(i), level) /\ vars' # vars)
    /\ phase = "running" /\ pc[i] = "ackwait"
         => ENABLED ( /\ MessageAck(sent[i], level)
                      /\ messageAcked'
                      /\ ackPromise'[i] = "true" )

\* C22: while the process runs, a message_ack event whose id is not the id
\* of a message a sendMessage call of this process returned is delivered
\* and changes nothing: messageWasSent and messageAcked, every timer, every
\* subscription and every promise of waitForAck are as before.
C22_ForeignAckChangesNothing ==
  \A id \in AckIds, level \in AckLevels :
    phase = "running" /\ (\A i \in Pipes : sent[i] # id)
      => /\ ENABLED MessageAck(id, level)
         /\ ~ENABLED (MessageAck(id, level) /\ vars' # vars)

\* a race is pending, with its timer armed and its handler subscribed,
\* while the client may emit acks of other messages
C22_Witness ==
  /\ phase = "running"
  /\ \E i \in Pipes :
       /\ ackPromise[i] = "pending"
       /\ ackTimer[i] = "armed"
       /\ ackListener[i]
       /\ sent[i] # ForeignId

\* C23: a sendMessage call of run i is made only after the i-th ready event
\* and with the chat id the resolution produced; the ack race of a run (its
\* promise, timer and listener) exists only after a sendMessage call of the
\* run returned a Message; while messageWasSent is false no listener is
\* subscribed and messageAcked is false.
C23_SendAfterReadyAckAfterSend ==
  /\ \A i \in Pipes :
       /\ i > readyCount => pc[i] = "idle" /\ sendLog[i] = <<>>
       /\ sendLog[i] # <<>>
            => /\ chatId[i] # <<>>
               /\ \A k \in 1..Len(sendLog[i]) : sendLog[i][k].chatId = chatId[i]
       /\ config.type = "group" /\ pc[i] = "getChats" => sendLog[i] = <<>>
       /\ ackPromise[i] # "none" \/ ackTimer[i] # "none" \/ ackListener[i]
            => /\ sent[i] # 0
               /\ sent[i] \in { 2 * (i - 1) + k : k \in 1..Len(sendLog[i]) }
  /\ ~messageWasSent
       => ~messageAcked /\ \A i \in Pipes : ~ackListener[i]

\* a group target has been resolved, the send has returned and the race of
\* the run is under way
C23_Witness ==
  \E i \in Pipes :
    /\ config.type = "group"
    /\ chatId[i] # <<>>
    /\ sent[i] # 0
    /\ ackListener[i]

\* C24: on the success path the steps come in the order: sendMessage
\* returns a Message, the ack race reports (true or false), the settle
\* delay elapses, client.destroy() is called, process.exit(0) at line 193,
\* whichever way the race reported; and client.destroy() is never called
\* while a sendMessage call or an ack race is pending.
C24_SuccessPathOrder ==
  /\ [](\A i \in Pipes :
          /\ pc[i] \in { "settle", "destroy193" }
               => sent[i] # 0 /\ Settled(i)
          /\ pc[i] = "destroy193" => destroyCalls >= 1
          /\ Exited /\ exitLine = 193 => exitCode = 0)
  /\ [][ /\ \A i \in Pipes :
              /\ pc'[i] # pc[i] /\ pc'[i] = "ackwait"
                   => pc[i] \in { "send1", "send2" }
              /\ pc'[i] # pc[i] /\ pc'[i] = "settle" => pc[i] = "ackwait"
              /\ pc'[i] # pc[i] /\ pc'[i] = "destroy193"
                   => pc[i] = "settle" /\ destroyCalls' = destroyCalls + 1
              /\ destroyCalls' # destroyCalls
                   => pc'[i] \notin { "send1", "send2", "ackwait" }
         /\ exitLine' = 193 /\ exitLine # 193
              => \E i \in Pipes : pc[i] = "destroy193" /\ pc'[i] = "done"
       ]_vars

\* C25: the exit taken after an awaited client.destroy() has the code of
\* its path, whether client.destroy() resolved or rejected: 0 at line 193
\* (success) and line 211 (benign error after the send), 1 at line 111
\* (group not found) and line 217 (failure).
C25_DestroyFailureKeepsExitCode ==
  [][\A i \in Pipes :
       pc[i] \in DestroyPcs /\ pc'[i] = "done"
         => /\ Exited'
            /\ pc[i] \in { "destroy193", "destroy211" } => exitCode' = 0
            /\ pc[i] \in { "destroy111", "destroy217" } => exitCode' = 1]_vars

\* client.destroy() rejected on the success path and the process exited 0
C25_Witness ==
  /\ destroyRejected
  /\ exitLine = 193
  /\ exitCode = 0

\* C26: messageWasSent is written only in a step in which a sendMessage
\* call returns, messageAcked only in a step in which the message_ack
\* handler of a run matches; a step that exits the process (auth_failure,
\* disconnected, unhandledRejection, the exits after client.destroy())
\* leaves both flags unchanged, and neither flag goes from true to false.
C26_OutcomeWrittenOnlyByPipeline ==
  [][ /\ messageWasSent => messageWasSent'
      /\ messageAcked => messageAcked'
      /\ messageWasSent' # messageWasSent
           => \E i \in Pipes :
                pc[i] \in { "send1", "send2" } /\ pc'[i] # pc[i]
      /\ messageAcked' # messageAcked
           => \E i \in Pipes : ackListener[i] /\ ~ackListener'[i]
      /\ Exited' => UNCHANGED outcomeVars
    ]_vars

\* C27: at most one sendMessage call of the process returns a Message (each
\* one sets messageWasSent at line 136 or 155), whatever events the client
\* emits, repeated ready events included.
C27_AtMostOneSentMessage ==
  Cardinality({ i \in Pipes : sent[i] # 0 }) <= 1

\* C28: once the client has emitted ready, and given that the awaited
\* client calls settle and the timers fire, the process exits; it exits
\* with one code, 0 or 1, which never changes afterwards.
C28_ReadyLeadsToOneExit ==
  /\ (readyCount >= 1) ~> Exited
  /\ [](Exited => exitCode \in { 0, 1 })
  /\ [][Exited => UNCHANGED exitVars]_vars

\* the success path was walked to its end: the race timed out, the settle
\* delay elapsed, the awaited destroy settled and the process exited
C28_Witness ==
  /\ Exited
  /\ exitLine = 193
  /\ \E i \in Pipes : pc[i] = "done" /\ ackTimer[i] = "fired"
====
